---------------------------- MODULE Spec2Model ----------------------------
(***************************************************************************)
(* Model of src/main.py: the DMM-eikaiwa availability notifier.            *)
(*                                                                         *)
(* The state is the UserData table, the process-wide failure streak        *)
(* (consecutive_errors), the scheduler's count of running job instances    *)
(* the position and locals of the run of check_teacher_availability, and   *)
(* the browser sessions with the registration requests they have in flight.*)
(* History variables (log, outbox, missed, startStreak, abortSite,         *)
(* escaped, prevAborted, prevCommitted, snap, probed, via, flash) record     *)
(* what happened, so that                                                  *)
(* properties of a whole run can be stated as state predicates.            *)
(***************************************************************************)
EXTENDS Integers, Sequences, FiniteSets, TLC

(* ------------------------------ bounds --------------------------------- *)
\* Most rows the table holds in an initial state.
MaxRecords == 2
\* Largest count get_available_slots returns.
MaxCount == 1
\* The streak at which the model stops submitting runs (consecutive_errors
\* is unbounded in the program).
MaxStreak == 6
\* Teacher numbers a registration form is filled in with: 1..MaxTeacher.
MaxTeacher == 1
\* How far the ids of the table may run ahead of the rows the model finds
\* in it at the start: the model accepts no registration beyond that.
MaxNewRows == 2

(* ------------------------- program constants --------------------------- *)
MAX_ERRORS == 5
\* if total_teachers >= 10
TeacherLimit == 10
\* APScheduler's default for a job added without max_instances.
max_instances == 1

VARIABLES
    store,                  \* UserData table: id -> row
    consecutive_errors,     \* global failure streak
    instances,              \* scheduler: running instances of the job
    pc,                     \* position of the run
    users,                  \* the run's snapshot: sequence of row ids
    loaded,                 \* ORM objects of the session: id -> attributes
    idx,                    \* position of the for loop in users
    error_count_this_run,
    current_count,
    log,                    \* history: per snapshot index, what the run did
    outbox,                 \* history: calls of Pushbullet.push_link of the run
    missed,                 \* history: a firing was skipped during this run
    startStreak,            \* history: consecutive_errors when the run began
    abortSite,              \* history: where the run's exception was raised
    escaped,                \* history: an exception left the function
    prevAborted,            \* history: the previous run ended in the handler
    prevCommitted,          \* history: id -> count that run had committed
    snap,                   \* history: the rows as the run's query read them
    probed,                 \* history: the subscriptions the run probed, in order
    session,                \* browser session -> session["user_id"]
    via,                    \* history: how the session obtained its user id
    req,                    \* browser session -> its POST / in flight
    flash                   \* history: the last message a request flashed

vars == <<store, consecutive_errors, instances, pc, users, loaded, idx,
          error_count_this_run, current_count, log, outbox, missed,
          startStreak, abortSite, escaped, prevAborted, prevCommitted,
          snap, probed, session, via, req, flash>>

runLocals == <<users, loaded, idx, error_count_this_run, current_count>>
history == <<log, outbox, missed, startStreak, abortSite, escaped,
             prevAborted, prevCommitted, snap, probed, via, flash>>
prev == <<prevAborted, prevCommitted>>
trace == <<snap, probed>>
web == <<session, via, req, flash>>

(* ------------------------------ UserData ------------------------------- *)
\* One row of UserData as inserted. last_accessed is 0 as set at the insert
\* and 1 once a request to / has refreshed it.
UserData(tid, uid, count) ==
    [teacher_id |-> tid,
     teacher_name |-> <<"name", tid>>,
     pushbullet_token |-> <<"token", uid, tid>>,
     last_available_count |-> count,
     user_id |-> uid,
     last_accessed |-> 0]

\* Tables the program can hold: user u1 has registered teachers 1..n, and
\* earlier runs have left any counts.
InitStores ==
    UNION { { [i \in 1..n |-> UserData(i, "u1", c[i])] : c \in [1..n -> 0..MaxCount] }
            : n \in 0..MaxRecords }

RECURSIVE SortedIds(_)
SortedIds(S) ==
    IF S = {} THEN << >>
    ELSE LET m == CHOOSE x \in S : \A y \in S : x <= y
         IN <<m>> \o SortedIds(S \ {m})

\* UserData.query.all(): every row, in primary-key order.
QueryAll(st) == SortedIds(DOMAIN st)

\* The browser sessions, and session["user_id"] = None (assign_user_id).
Sessions == {"s1", "s2"}
NoUser == "none"

\* No POST / of the session is in flight.
NoRequest == [phase |-> "none"]
\* flash(...): what the message says, whose request it was, which teacher.
Flash(kind, uid, tid) == [kind |-> kind, user_id |-> uid, teacher_id |-> tid]

\* A history entry: the probe's outcome (kind, current), the count the table
\* held when the row was probed (stored), and whether the run committed it.
Unprobed ==
    [kind |-> "unprobed", current |-> 0, stored |-> 0, committed |-> FALSE]

Init ==
    /\ store \in InitStores
    /\ consecutive_errors = 0
    /\ instances = 0
    /\ pc = "idle"
    /\ users = << >>
    /\ loaded = << >>
    /\ idx = 0
    /\ error_count_this_run = 0
    /\ current_count = 0
    /\ log = << >>
    /\ outbox = << >>
    /\ missed = FALSE
    /\ startStreak = 0
    /\ abortSite = "none"
    /\ escaped = FALSE
    /\ prevAborted = FALSE
    /\ prevCommitted = << >>
    /\ snap = << >>
    /\ probed = << >>
    /\ session = [s \in Sessions |-> NoUser]
    /\ via = [s \in Sessions |-> "none"]
    /\ req = [s \in Sessions |-> NoRequest]
    /\ flash = Flash("none", NoUser, 0)

(* ------------------------------ scheduler ------------------------------ *)
\* Mutant: the executor submits whatever is already running.
CanSubmit_Always == TRUE

\* The executor submits a job only below max_instances.
CanSubmit == instances < max_instances

\* The interval elapses and the job is submitted: a run begins.
FireSubmit ==
    /\ consecutive_errors < MaxStreak
    /\ CanSubmit
    /\ instances' = instances + 1
    /\ pc' = IF pc = "idle" THEN "query" ELSE pc
    /\ startStreak' = consecutive_errors
    /\ UNCHANGED <<store, consecutive_errors, runLocals, log, outbox, missed,
                   abortSite, escaped, prev, trace, web>>

\* The interval elapses while the job still runs: the firing is skipped.
FireSkip ==
    /\ ~CanSubmit
    /\ missed' = TRUE
    /\ UNCHANGED <<store, consecutive_errors, instances, pc, runLocals, log,
                   outbox, startStreak, abortSite, escaped, prev, trace, web>>

(* ---------------------- check_teacher_availability --------------------- *)
\* Mutant: the try block starts after the query.
InTry_LoopOnly(site) == site \in {"loop", "commit", "deleted", "stale"}

\* The statements the try block encloses.
InTry(site) == site \in {"query", "loop", "commit", "deleted", "stale"}

\* An exception raised at site: the except clause of the run ends the run.
Raise(site) ==
    /\ pc' = "aborted"
    /\ abortSite' = site
    /\ escaped' = (escaped \/ ~InTry(site))

\* users = UserData.query.all(); error_count_this_run = 0
RunQuery ==
    /\ pc = "query"
    /\ users' = QueryAll(store)
    /\ loaded' = [id \in DOMAIN store |-> [expired |-> FALSE, row |-> store[id]]]
    /\ error_count_this_run' = 0
    /\ idx' = 1
    /\ log' = [i \in 1..Cardinality(DOMAIN store) |-> Unprobed]
    /\ pc' = "loop"
    /\ snap' = [i \in 1..Cardinality(DOMAIN store) |-> store[QueryAll(store)[i]]]
    /\ probed' = << >>
    /\ UNCHANGED <<store, consecutive_errors, instances, current_count, outbox,
                   missed, startStreak, abortSite, escaped, prev, web>>

\* The query raises (the store cannot be read).
RunQueryRaise ==
    /\ pc = "query"
    /\ Raise("query")
    /\ UNCHANGED <<store, consecutive_errors, instances, runLocals, log, outbox,
                   missed, startStreak, prev, trace, web>>

InLoop == pc = "loop" /\ idx <= Len(users)

\* The attributes of ORM object id: as loaded, or read again from the table
\* once a commit has expired them.
Attrs(id) == IF loaded[id].expired THEN store[id] ELSE loaded[id].row

Refreshed(id) == [loaded EXCEPT ![id] = [expired |-> FALSE, row |-> Attrs(id)]]

\* The ORM object is expired and the table holds no row of its id any more:
\* reading an attribute raises ObjectDeletedError.
RowGone(id) == loaded[id].expired /\ id \notin DOMAIN store

\* The count the table holds for id when the row is probed (the object's own
\* count if the row has been deleted under an object still loaded).
TableCount(id) ==
    IF id \in DOMAIN store THEN store[id].last_available_count
    ELSE loaded[id].row.last_available_count

\* The subscription a probe is made for: get_available_slots(user.teacher_id).
ProbedRow(id) ==
    [pos |-> idx, teacher_id |-> Attrs(id).teacher_id, user_id |-> Attrs(id).user_id]

\* Mutant: a failed probe is stored as a count of 0.
AfterProbeFailure_Zeroed(st, id) == [st EXCEPT ![id].last_available_count = 0]

\* `continue` after a failed probe: the row is left alone.
AfterProbeFailure(st, id) == st

\* get_available_slots returned None.
ProbeNone ==
    /\ InLoop
    /\ LET id == users[idx] IN
        /\ ~RowGone(id)
        /\ loaded' = Refreshed(id)
        /\ store' = AfterProbeFailure(store, id)
        /\ log' = [log EXCEPT ![idx] =
                     [kind |-> "none", current |-> 0,
                      stored |-> TableCount(id),
                      committed |-> FALSE]]
        /\ probed' = Append(probed, ProbedRow(id))
    /\ error_count_this_run' = error_count_this_run + 1
    /\ idx' = idx + 1
    /\ UNCHANGED <<consecutive_errors, instances, pc, users, current_count,
                   outbox, missed, startStreak, abortSite, escaped, prev, snap,
                   web>>

\* get_available_slots returned the count c.
ProbeCount(c) ==
    /\ InLoop
    /\ LET id == users[idx] IN
        /\ ~RowGone(id)
        /\ loaded' = Refreshed(id)
        /\ log' = [log EXCEPT ![idx] =
                     [kind |-> "count", current |-> c,
                      stored |-> TableCount(id),
                      committed |-> FALSE]]
        /\ probed' = Append(probed, ProbedRow(id))
    /\ current_count' = c
    /\ pc' = "decide"
    /\ UNCHANGED <<store, consecutive_errors, instances, users, idx,
                   error_count_this_run, outbox, missed, startStreak,
                   abortSite, escaped, prev, snap, web>>

\* The row of the expired object has been deleted: user.teacher_id raises
\* ObjectDeletedError, which the run's except clause catches.
ProbeRowGone ==
    /\ InLoop
    /\ RowGone(users[idx])
    /\ Raise("deleted")
    /\ UNCHANGED <<store, consecutive_errors, instances, runLocals, log, outbox,
                   missed, startStreak, prev, trace, web>>

\* Mutant: the handler counts the aborted run as a failed one.
ProbeRaise_Counted ==
    /\ pc = "loop" /\ idx <= Len(users)
    /\ pc' = "aborted"
    /\ abortSite' = "loop"
    /\ consecutive_errors' = consecutive_errors + 1
    /\ UNCHANGED <<store, instances, users, loaded, idx, error_count_this_run,
                   current_count, log, outbox, missed, startStreak, escaped,
                   prev, trace, web>>

\* An error other than a RequestException while reading or probing the row.
ProbeRaise ==
    /\ InLoop
    /\ Raise("loop")
    /\ UNCHANGED <<store, consecutive_errors, instances, runLocals, log, outbox,
                   missed, startStreak, prev, trace, web>>

\* Mutant: the comparison is turned around.
ShouldNotify_Inverted(cur, last) == last > cur

\* Mutant: an unchanged count notifies too.
ShouldNotify_OrEqual(cur, last) == cur >= last

\* if current_count > user.last_available_count
ShouldNotify(cur, last) == cur > last

\* What push_link is called with.
Message(row, delivered) ==
    [token |-> row.pushbullet_token, teacher_id |-> row.teacher_id,
     name |-> row.teacher_name, delivered |-> delivered]

\* Mutant: the failed push is not caught and reaches the run's handler.
AfterPushFailure_Propagates == "aborted"

\* Where control is after send_push_notification caught a failed push.
AfterPushFailure == "commit"

\* send_push_notification delivers the push.
NotifyDelivered ==
    /\ pc = "decide"
    /\ LET row == loaded[users[idx]].row IN
        /\ ShouldNotify(current_count, row.last_available_count)
        /\ outbox' = Append(outbox, Message(row, TRUE))
    /\ pc' = "commit"
    /\ UNCHANGED <<store, consecutive_errors, instances, runLocals, log, missed,
                   startStreak, abortSite, escaped, prev, trace, web>>

\* The push raises inside send_push_notification, which prints and returns.
NotifyFailed ==
    /\ pc = "decide"
    /\ LET row == loaded[users[idx]].row IN
        /\ ShouldNotify(current_count, row.last_available_count)
        /\ outbox' = Append(outbox, Message(row, FALSE))
    /\ pc' = AfterPushFailure
    /\ abortSite' = IF AfterPushFailure = "aborted" THEN "push" ELSE abortSite
    /\ UNCHANGED <<store, consecutive_errors, instances, runLocals, log, missed,
                   startStreak, escaped, prev, trace, web>>

\* The count did not rise: no notification.
NoNotify ==
    /\ pc = "decide"
    /\ ~ShouldNotify(current_count, loaded[users[idx]].row.last_available_count)
    /\ pc' = "commit"
    /\ UNCHANGED <<store, consecutive_errors, instances, runLocals, log, outbox,
                   missed, startStreak, abortSite, escaped, prev, trace, web>>

\* Mutant: the new count is not written before the loop moves on.
Persist_Uncommitted(st, id, c) == st

\* user.last_available_count = current_count; db.session.commit()
Persist(st, id, c) == [st EXCEPT ![id].last_available_count = c]

\* The assignment changes the object: the flush issues an UPDATE by id.
Dirty == current_count # loaded[users[idx]].row.last_available_count

RunCommit ==
    /\ pc = "commit"
    /\ Dirty => users[idx] \in DOMAIN store
    /\ store' = IF Dirty THEN Persist(store, users[idx], current_count)
                ELSE store
    /\ loaded' = [id \in DOMAIN loaded |-> [loaded[id] EXCEPT !.expired = TRUE]]
    /\ log' = [log EXCEPT ![idx].committed = TRUE]
    /\ idx' = idx + 1
    /\ pc' = "loop"
    /\ UNCHANGED <<consecutive_errors, instances, users, error_count_this_run,
                   current_count, outbox, missed, startStreak, abortSite,
                   escaped, prev, trace, web>>

\* The UPDATE matches no row (the row has been deleted): the flush raises
\* StaleDataError, which the run's except clause catches.
RunCommitStale ==
    /\ pc = "commit"
    /\ Dirty
    /\ users[idx] \notin DOMAIN store
    /\ Raise("stale")
    /\ UNCHANGED <<store, consecutive_errors, instances, runLocals, log, outbox,
                   missed, startStreak, prev, trace, web>>

\* The commit raises: nothing is written.
RunCommitRaise ==
    /\ pc = "commit"
    /\ Raise("commit")
    /\ UNCHANGED <<store, consecutive_errors, instances, runLocals, log, outbox,
                   missed, startStreak, prev, trace, web>>

\* Mutant: any failed probe counts as a failed run.
NextStreak_AnyFailure(errors, n, streak) == IF errors > 0 THEN streak + 1 ELSE 0

\* if error_count_this_run == len(users): consecutive_errors += 1
\* else: consecutive_errors = 0
NextStreak(errors, n, streak) == IF errors = n THEN streak + 1 ELSE 0

\* Mutant: at the threshold the run stops for good and holds its instance.
ThresholdReturn_Halt == "halted"

\* `return` once the streak has reached MAX_ERRORS: the run ends as any other.
ThresholdReturn == "done"

RunTally ==
    /\ pc = "loop"
    /\ idx > Len(users)
    /\ consecutive_errors' =
          NextStreak(error_count_this_run, Len(users), consecutive_errors)
    /\ pc' = IF error_count_this_run = Len(users)
                /\ consecutive_errors' >= MAX_ERRORS
             THEN ThresholdReturn ELSE "done"
    /\ UNCHANGED <<store, instances, runLocals, log, outbox, missed,
                   startStreak, abortSite, escaped, prev, trace, web>>

\* What the run has committed: id -> count, for the rows it finished.
CommittedSoFar ==
    LET done == {i \in 1..Len(log) : log[i].committed}
    IN [id \in {users[i] : i \in done} |->
           log[CHOOSE i \in done : users[i] = id].current]

\* The function returns: the app context and its session are torn down and
\* the scheduler releases the instance.
RunExit ==
    /\ pc \in {"done", "aborted"}
    /\ pc' = "idle"
    /\ instances' = instances - 1
    /\ prevAborted' = (pc = "aborted")
    /\ prevCommitted' = IF pc = "aborted" THEN CommittedSoFar ELSE << >>
    /\ users' = << >>
    /\ loaded' = << >>
    /\ idx' = 0
    /\ error_count_this_run' = 0
    /\ current_count' = 0
    /\ log' = << >>
    /\ outbox' = << >>
    /\ missed' = FALSE
    /\ abortSite' = "none"
    /\ startStreak' = 0
    /\ snap' = << >>
    /\ probed' = << >>
    /\ UNCHANGED <<store, consecutive_errors, escaped, web>>

Next ==
    \/ FireSubmit
    \/ FireSkip
    \/ RunQuery
    \/ RunQueryRaise
    \/ ProbeNone
    \/ \E c \in 0..MaxCount : ProbeCount(c)
    \/ ProbeRaise
    \/ NotifyDelivered
    \/ NotifyFailed
    \/ NoNotify
    \/ RunCommit
    \/ RunCommitRaise
    \/ RunTally
    \/ RunExit

Spec == Init /\ [][Next]_vars

(* ---------------------------- web requests ----------------------------- *)
pollVars == <<consecutive_errors, instances, pc, runLocals, log, outbox,
              missed, startStreak, abortSite, escaped, prev, trace>>

\* What the forms are filled in with.
UserIds == {"u1", "u2"}
TeacherIds == 1..MaxTeacher
\* request.form.get("teacher_id"): digits, other text, or no such field.
Digits(T) == {[kind |-> "digits", id |-> t] : t \in T}
TeacherForms ==
    Digits(TeacherIds) \cup {[kind |-> "text", id |-> 0], [kind |-> "missing", id |-> 0]}
TokenForms == {"token", ""}

\* UserData.query.filter_by(user_id=u)
RowsOf(st, u) == {id \in DOMAIN st : st[id].user_id = u}

\* UserData.query.filter_by(teacher_id=t, user_id=u)
Matching(st, t, u) ==
    {id \in DOMAIN st : st[id].teacher_id = t /\ st[id].user_id = u}

\* .first(): the row of the lowest id.
First(S) == CHOOSE x \in S : \A y \in S : x <= y

\* Mutant: the refresh writes the whole row anew, its count with it.
Touch_ResetsCount(st, u) ==
    [id \in DOMAIN st |->
        IF st[id].user_id = u
        THEN [st[id] EXCEPT !.last_accessed = 1, !.last_available_count = 0]
        ELSE st[id]]

\* update({"last_accessed": datetime.utcnow()}) on the rows of u; commit.
Touch(st, u) ==
    [id \in DOMAIN st |->
        IF st[id].user_id = u THEN [st[id] EXCEPT !.last_accessed = 1] ELSE st[id]]

\* The id SQLite gives the next row: one above the largest id in the table
\* (the column is an INTEGER PRIMARY KEY without AUTOINCREMENT).
NextId(st) ==
    IF DOMAIN st = {} THEN 1
    ELSE (CHOOSE x \in DOMAIN st : \A y \in DOMAIN st : y <= x) + 1

\* db.session.add(new_data); db.session.commit()
Insert(st, row) ==
    [id \in DOMAIN st \cup {NextId(st)} |-> IF id \in DOMAIN st THEN st[id] ELSE row]

\* db.session.delete / query.delete, then commit.
Remove(st, S) == [id \in DOMAIN st \ S |-> st[id]]

\* Teacher numbers of rows no form of the model is filled in with.
OtherTeacher(i) == MaxRecords + MaxTeacher + 1 + i

\* Rows with such a teacher number.
OtherRows(st) == {id \in DOMAIN st : st[id].teacher_id >= OtherTeacher(1)}

\* The table a fresh database file holds, and tables in which u1 is one
\* short of the limit (counts as an earlier run left them).
WebStores ==
    {<< >>} \cup {[i \in 1..(TeacherLimit - 1) |-> UserData(OtherTeacher(i), "u1", c)] :
                    c \in 0..MaxCount}

\* set_user, action == "login": the id must own a row.
Login(s, u) ==
    /\ IF RowsOf(store, u) # {}
       THEN /\ session' = [session EXCEPT ![s] = u]
            /\ via' = [via EXCEPT ![s] = "login"]
       ELSE UNCHANGED <<session, via>>
    /\ UNCHANGED <<store, req, flash, pollVars>>

\* set_user, action == "register": the id must own no row.
Register(s, u) ==
    /\ IF RowsOf(store, u) = {}
       THEN /\ session' = [session EXCEPT ![s] = u]
            /\ via' = [via EXCEPT ![s] = "register"]
       ELSE UNCHANGED <<session, via>>
    /\ UNCHANGED <<store, req, flash, pollVars>>

\* GET /: the page view refreshes last_accessed and lists the rows.
IndexGet(s) ==
    /\ session[s] # NoUser
    /\ store' = Touch(store, session[s])
    /\ UNCHANGED <<session, via, req, flash, pollVars>>

\* POST /: what the checks before the name lookup answer.
Verdict(st, u, form, tok) ==
    IF Cardinality(RowsOf(st, u)) >= TeacherLimit THEN "limit"
    ELSE IF form.kind = "missing" THEN "error"
    ELSE IF form.kind # "digits" THEN "not numeric"
    ELSE IF tok = "" THEN "incomplete"
    ELSE IF Matching(st, form.id, u) # {} THEN "registered"
    ELSE "ok"

\* Registrations under way.
InFlight == {s \in Sessions : req[s] # NoRequest}

\* Ids the model still lets the table hand out.
IdsLeft(st) == Cardinality(OtherRows(st)) + MaxNewRows - (NextId(st) - 1)

\* POST / that one of the checks turns down (or None.isdigit() raises).
IndexPostReject(s, form, tok) ==
    /\ session[s] # NoUser
    /\ req[s] = NoRequest
    /\ Verdict(store, session[s], form, tok) # "ok"
    /\ store' = Touch(store, session[s])
    /\ flash' = Flash(Verdict(store, session[s], form, tok), session[s], form.id)
    /\ UNCHANGED <<session, via, req, pollVars>>

\* POST / that passes the checks: the name lookup is next.
IndexPostAccept(s, form, tok) ==
    /\ session[s] # NoUser
    /\ req[s] = NoRequest
    /\ Cardinality(InFlight) < IdsLeft(store)
    /\ Verdict(store, session[s], form, tok) = "ok"
    /\ store' = Touch(store, session[s])
    /\ req' = [req EXCEPT ![s] = [phase |-> "lookup", teacher_id |-> form.id,
                                  user_id |-> session[s],
                                  teacher_name |-> "None"]]
    /\ UNCHANGED <<session, via, flash, pollVars>>

\* get_teacher_name returned a name.
IndexLookupFound(s) ==
    /\ req[s].phase = "lookup"
    /\ req' = [req EXCEPT ![s].phase = "insert", ![s].teacher_name = "name"]
    /\ UNCHANGED <<store, session, via, flash, pollVars>>

\* Mutant: the request goes on to the insert without a name.
LookupFailed_Continues(r) == [r EXCEPT !.phase = "insert"]

\* get_teacher_name returned None: the request ends with a flash.
LookupFailed(r) == NoRequest

IndexLookupFailed(s) ==
    /\ req[s].phase = "lookup"
    /\ req' = [req EXCEPT ![s] = LookupFailed(req[s])]
    /\ flash' = IF req'[s] = NoRequest
                THEN Flash("lookup failed", req[s].user_id, req[s].teacher_id)
                ELSE flash
    /\ UNCHANGED <<store, session, via, pollVars>>

\* The registration is written.
IndexInsert(s) ==
    /\ req[s].phase = "insert"
    /\ store' = Insert(store, UserData(req[s].teacher_id, req[s].user_id, 0))
    /\ req' = [req EXCEPT ![s] = NoRequest]
    /\ flash' = Flash("inserted", req[s].user_id, req[s].teacher_id)
    /\ UNCHANGED <<session, via, pollVars>>

\* Mutant: the row is looked up by teacher number alone.
DeleteTarget_AnyOwner(st, t, u) == {id \in DOMAIN st : st[id].teacher_id = t}

\* delete_teacher: filter_by(teacher_id=teacher_id, user_id=user_id)
DeleteTarget(st, t, u) == Matching(st, t, u)

\* POST /delete_teacher
DeleteTeacher(s, t) ==
    /\ LET found == DeleteTarget(store, t, session[s]) IN
          /\ store' = IF found # {} THEN Remove(store, {First(found)}) ELSE store
          /\ flash' = Flash(IF found # {} THEN "deleted" ELSE "absent", session[s], t)
    /\ UNCHANGED <<session, via, req, pollVars>>

\* POST /reset_user
ResetUser(s) ==
    /\ store' = IF session[s] # NoUser
                THEN Remove(store, RowsOf(store, session[s])) ELSE store
    /\ session' = [session EXCEPT ![s] = NoUser]
    /\ via' = [via EXCEPT ![s] = "none"]
    /\ flash' = Flash("reset", session[s], 0)
    /\ UNCHANGED <<req, pollVars>>

\* A step of the registration of session s.
RegistrationStep(s) ==
    \/ \E form \in TeacherForms, tok \in TokenForms : IndexPostReject(s, form, tok)
    \/ \E form \in TeacherForms, tok \in TokenForms : IndexPostAccept(s, form, tok)
    \/ IndexLookupFound(s)
    \/ IndexLookupFailed(s)
    \/ IndexInsert(s)

WebNext ==
    \E s \in Sessions :
        \/ \E u \in UserIds : Login(s, u)
        \/ \E u \in UserIds : Register(s, u)
        \/ IndexGet(s)
        \/ RegistrationStep(s)
        \/ \E t \in TeacherIds : DeleteTeacher(s, t)
        \/ ResetUser(s)

\* Everything but the table as the process starts.
AtRest ==
    /\ consecutive_errors = 0
    /\ instances = 0
    /\ pc = "idle"
    /\ users = << >>
    /\ loaded = << >>
    /\ idx = 0
    /\ error_count_this_run = 0
    /\ current_count = 0
    /\ log = << >>
    /\ outbox = << >>
    /\ missed = FALSE
    /\ startStreak = 0
    /\ abortSite = "none"
    /\ escaped = FALSE
    /\ prevAborted = FALSE
    /\ prevCommitted = << >>
    /\ snap = << >>
    /\ probed = << >>
    /\ req = [s \in Sessions |-> NoRequest]
    /\ flash = Flash("none", NoUser, 0)

WebInit ==
    /\ store \in WebStores
    /\ session = [s \in Sessions |-> NoUser]
    /\ via = [s \in Sessions |-> "none"]
    /\ AtRest

\* The requests of the browser sessions, interleaved at the name lookup.
WebSpec == WebInit /\ [][WebNext]_vars


(* ---------------------- a run among web requests ---------------------- *)
\* The browser session of the owner of the rows, logged in.
Owner == "s1"

\* The teacher the owner registers while runs come and go.
NewTeacher == MaxRecords + 1

\* The owner's requests that write the table.
OwnerStep ==
    \/ IndexPostAccept(Owner, [kind |-> "digits", id |-> NewTeacher], "token")
    \/ IndexLookupFound(Owner)
    \/ IndexInsert(Owner)
    \/ \E t \in 1..NewTeacher : DeleteTeacher(Owner, t)
    \/ ResetUser(Owner)

\* The steps of a run in which every probe and every push succeeds.
HealthyRunStep ==
    \/ FireSubmit
    \/ RunQuery
    \/ \E c \in 0..MaxCount : ProbeCount(c)
    \/ ProbeRowGone
    \/ NotifyDelivered
    \/ NoNotify
    \/ RunCommit
    \/ RunCommitStale
    \/ RunTally
    \/ RunExit

RaceNext == HealthyRunStep \/ OwnerStep

RaceInit ==
    /\ store \in InitStores \ {<< >>}
    /\ session = [s \in Sessions |-> IF s = Owner THEN "u1" ELSE NoUser]
    /\ via = [s \in Sessions |-> IF s = Owner THEN "login" ELSE "none"]
    /\ AtRest

\* Runs of check_teacher_availability interleaved with the owner's requests.
RaceSpec == RaceInit /\ [][RaceNext]_vars

\* The steps of a run that the run's own thread takes without waiting on
\* anything unbounded: the query, a probe (requests' timeout of 5 s bounds
\* it), the comparison, the commit, the tally and the return. A push is
\* not among them: Pushbullet's calls are made without a timeout.
RunProgress ==
    \/ RunQuery
    \/ ProbeNone
    \/ \E c \in 0..MaxCount : ProbeCount(c)
    \/ NoNotify
    \/ RunCommit
    \/ RunTally
    \/ RunExit

\* The scheduler and the run, the run's thread being scheduled fairly.
LiveSpec == Spec /\ WF_vars(RunProgress)

(* ------------------------- reading the history ------------------------- *)
\* The snapshot positions of the run.
Items == 1..Len(log)

\* The calls of push_link made for the subscription at snapshot position i.
PushesFor(i) ==
    LET row == loaded[users[i]].row
    IN {k \in 1..Len(outbox) :
           /\ outbox[k].teacher_id = row.teacher_id
           /\ outbox[k].token = row.pushbullet_token
           /\ outbox[k].name = row.teacher_name}

\* The run has finished handling position i (the loop has moved past it).
Finished(i) == i \in Items /\ i < idx

Rose(i) == log[i].kind = "count" /\ log[i].current > log[i].stored
NotRose(i) == log[i].kind = "count" /\ log[i].current <= log[i].stored
Failed(i) == log[i].kind = "none"
AllFailed == \A i \in Items : Failed(i)
StoredCount(i) == store[users[i]].last_available_count

\* Position i was handled as the loop body prescribes for its own probe result.
HandledNormally(i) ==
    /\ log[i].kind # "unprobed"
    /\ Rose(i) => /\ Cardinality(PushesFor(i)) = 1
                  /\ StoredCount(i) = log[i].current
    /\ NotRose(i) => /\ PushesFor(i) = {}
                     /\ StoredCount(i) = log[i].current
    /\ Failed(i) => /\ PushesFor(i) = {}
                    /\ StoredCount(i) = log[i].stored

\* One step of the run in flight.
RunStep ==
    \/ RunQuery
    \/ ProbeNone
    \/ \E c \in 0..MaxCount : ProbeCount(c)
    \/ NotifyDelivered
    \/ NotifyFailed
    \/ NoNotify
    \/ RunCommit
    \/ RunTally
    \/ RunExit

(* ------------------------------- claims -------------------------------- *)

\* C1: for every subscription of the snapshot whose probe returned a count
\* above the stored one, send_push_notification is called at most once while
\* the run handles it, and once the run has finished handling it (so for all
\* of them when the run reaches its end) it has been called exactly once and
\* the table holds the probed count.
C1_NotifyOnceOnIncrease ==
    \A i \in Items :
        Rose(i) =>
            /\ Cardinality(PushesFor(i)) <= 1
            /\ Finished(i) => /\ Cardinality(PushesFor(i)) = 1
                              /\ StoredCount(i) = log[i].current

C1_Witness ==
    /\ pc = "done"
    /\ \E i \in Items :
          /\ Rose(i)
          /\ log[i].stored = 0
          /\ log[i].current = MaxCount
          /\ Cardinality(PushesFor(i)) = 1
          /\ StoredCount(i) = MaxCount

\* C2: for every subscription whose probe returned a count not above the
\* stored one, no notification is sent, and once the run has finished
\* handling it the table holds the probed count, lower than before or equal.
C2_OverwriteWithoutNotify ==
    \A i \in Items :
        NotRose(i) =>
            /\ PushesFor(i) = {}
            /\ Finished(i) => StoredCount(i) = log[i].current

C2_Witness ==
    /\ pc = "done"
    /\ \E i \in Items :
          /\ NotRose(i)
          /\ log[i].current < log[i].stored
          /\ StoredCount(i) = log[i].current
          /\ PushesFor(i) = {}

\* C3: a failed probe leaves the subscription's stored count as it was and
\* sends nothing for it, and a run that reaches its end has probed every
\* subscription of the snapshot and handled each as its own probe result
\* prescribes, whichever other probes failed.
C3_ProbeFailureIsLocal ==
    /\ \A i \in Items :
          Failed(i) => /\ PushesFor(i) = {}
                       /\ StoredCount(i) = log[i].stored
                       /\ ~log[i].committed
    /\ pc = "done" => \A i \in Items : HandledNormally(i)

C3_Witness ==
    /\ pc = "done"
    /\ Len(users) > 1
    /\ Failed(1)
    /\ log[1].stored > 0
    /\ Rose(2)
    /\ Cardinality(PushesFor(2)) = 1

\* C4: at the end of a run over a non-empty snapshot, consecutive_errors is
\* its value at the start plus 1 if every probe failed, and 0 if at least one
\* probe succeeded.
C4_StreakAfterNonEmptyRun ==
    (pc = "done" /\ Len(users) > 0) =>
        /\ AllFailed => consecutive_errors = startStreak + 1
        /\ ~AllFailed => consecutive_errors = 0

C4_Witness ==
    /\ pc = "done"
    /\ Len(users) > 1
    /\ startStreak > 1
    /\ Failed(1)
    /\ ~Failed(2)
    /\ consecutive_errors = 0

\* C5: the streak is incremented only by a run over a non-empty snapshot
\* whose probes all failed; every other run, a run over an empty store
\* included, ends with the streak at 0.
C5_IncrementOnlyWhenNonEmpty ==
    pc = "done" =>
        IF Len(users) > 0 /\ AllFailed
        THEN consecutive_errors = startStreak + 1
        ELSE consecutive_errors = 0

\* C6: a push that fails inside send_push_notification never ends the run:
\* the call is not repeated, the subscription's count is committed once the
\* run has finished handling it, and a run is only ever ended early by an
\* error raised outside the notifier.
C6_PushFailureIsSwallowed ==
    /\ abortSite # "push"
    /\ \A i \in Items :
          (\E k \in PushesFor(i) : ~outbox[k].delivered) =>
              /\ Cardinality(PushesFor(i)) = 1
              /\ Finished(i) => /\ log[i].committed
                                /\ StoredCount(i) = log[i].current
    /\ pc = "done" => \A i \in Items : log[i].kind # "unprobed"

C6_Witness ==
    /\ pc = "done"
    /\ Len(users) > 1
    /\ \E k \in PushesFor(1) : ~outbox[k].delivered
    /\ StoredCount(1) = log[1].current
    /\ log[1].current > log[1].stored
    /\ log[2].kind = "count"
    /\ log[2].committed

\* C7: at most one run of check_teacher_availability is in flight, and the
\* scheduler counts a running instance exactly while the run is in flight.
C7_OneRunAtATime ==
    /\ instances <= 1
    /\ (instances = 1) <=> (pc # "idle")

C7_Witness ==
    /\ missed
    /\ pc = "commit"
    /\ instances = 1

\* C8: with the streak at or above MAX_ERRORS the run in flight always has a
\* next step, an idle scheduler still submits the job, the loop still probes
\* the subscription it stands at, and a run that began at or above the
\* threshold and reaches its end has probed every subscription and, if a
\* probe succeeded, has reset the streak to 0.
C8_ThresholdNeverDisablesPolling ==
    /\ (consecutive_errors >= MAX_ERRORS /\ pc # "idle") => ENABLED RunStep
    /\ (consecutive_errors >= MAX_ERRORS /\ consecutive_errors < MaxStreak
          /\ pc = "idle") => ENABLED FireSubmit
    /\ (startStreak >= MAX_ERRORS /\ InLoop) =>
          /\ ENABLED ProbeNone
          /\ \A c \in 0..MaxCount : ENABLED ProbeCount(c)
    /\ (startStreak >= MAX_ERRORS /\ pc = "done") =>
          /\ \A i \in Items : log[i].kind # "unprobed"
          /\ ~AllFailed => consecutive_errors = 0

C8_Witness ==
    /\ pc = "done"
    /\ startStreak >= MAX_ERRORS
    /\ Len(users) > 0
    /\ ~AllFailed
    /\ consecutive_errors = 0

\* C9: no exception raised in a run leaves check_teacher_availability; the
\* aborted run ends and releases the scheduler, which submits the next run,
\* and that run, when it reaches its end, has handled every subscription of
\* its snapshot normally.
C9_RunErrorsAreContained ==
    /\ ~escaped
    /\ pc = "aborted" => /\ abortSite \in {"query", "loop", "commit"}
                         /\ instances = 1
                         /\ ENABLED RunExit
    /\ (prevAborted /\ pc = "idle" /\ consecutive_errors < MaxStreak) =>
          ENABLED FireSubmit
    /\ (prevAborted /\ pc = "done") => \A i \in Items : HandledNormally(i)

C9_Witness ==
    /\ prevAborted
    /\ pc = "done"
    /\ Len(users) > 0
    /\ \E i \in Items : Rose(i)

\* C10: every subscription the run has finished handling with a successful
\* probe already has its new count in the table, also when the run is
\* aborted at a later subscription; and the run after an aborted one sends a
\* notification for such a subscription only when its probe returns a count
\* above the one the aborted run committed.
C10_CommittedPerSubscription ==
    /\ \A i \in Items :
          (Finished(i) /\ log[i].kind = "count") =>
              /\ log[i].committed
              /\ StoredCount(i) = log[i].current
    /\ \A i \in Items :
          (users[i] \in DOMAIN prevCommitted /\ PushesFor(i) # {}) =>
              /\ log[i].kind = "count"
              /\ log[i].current > prevCommitted[users[i]]

C10_Witness ==
    /\ pc = "done"
    /\ \E i \in Items :
          /\ users[i] \in DOMAIN prevCommitted
          /\ prevCommitted[users[i]] > 0
          /\ log[i].kind = "count"
          /\ log[i].current = prevCommitted[users[i]]
          /\ PushesFor(i) = {}

\* C11: no two rows of the table share the same (teacher_id, user_id) pair,
\* whatever registration requests have run and however they interleaved.
C11_PairIsUnique ==
    \A a, b \in DOMAIN store :
        (/\ store[a].teacher_id = store[b].teacher_id
         /\ store[a].user_id = store[b].user_id) => a = b

\* C12: while no run is in flight, whatever requests to set_user, /,
\* delete_teacher and reset_user are served, the last_available_count of
\* every row that stays in the table stays as it is.
C12_CountChangedOnlyByRun ==
    [][\A id \in DOMAIN store \cap DOMAIN store' :
          store'[id].last_available_count = store[id].last_available_count]_vars

\* A page view has refreshed a row whose count a run had raised, next to a
\* row registered since.
C12_Witness ==
    /\ flash.kind = "inserted"
    /\ \E id \in DOMAIN store :
          /\ store[id].last_accessed = 1
          /\ store[id].last_available_count > 0
    /\ \E id \in DOMAIN store :
          /\ store[id].teacher_id = flash.teacher_id
          /\ store[id].user_id = flash.user_id
          /\ store[id].last_available_count = 0

\* Nothing but last_accessed differs between the rows of a and those of b.
SameSubscriptions(a, b) ==
    /\ DOMAIN a = DOMAIN b
    /\ \A id \in DOMAIN a :
          [b[id] EXCEPT !.last_accessed = a[id].last_accessed] = a[id]

\* A step that ends the POST / of session s without an insert: the teacher
\* id is not numeric, a field is missing, the pair is registered already, or
\* the name lookup failed.
FailedRegistration(s) ==
    \/ \E form \in TeacherForms, tok \in TokenForms :
          /\ Verdict(store, session[s], form, tok)
                \in {"error", "not numeric", "incomplete", "registered"}
          /\ IndexPostReject(s, form, tok)
    \/ IndexLookupFailed(s)

\* Every row a step adds is the row of a request whose name lookup returned
\* a name, and its count is 0.
CreatedAfterLookup ==
    \A id \in DOMAIN store' \ DOMAIN store :
        \E s \in Sessions :
            /\ req[s].phase = "insert"
            /\ req[s].teacher_name = "name"
            /\ store'[id] = UserData(req[s].teacher_id, req[s].user_id, 0)

\* C13 as stated: a registration request creates a row only after the name
\* lookup succeeded, with last_available_count = 0, and a request that fails
\* leaves the table unchanged.
C13_FailureLeavesStore ==
    [][/\ CreatedAfterLookup
       /\ (\E s \in Sessions : FailedRegistration(s)) => store' = store]_vars

\* C13, amended: a registration request creates a row only after the name
\* lookup succeeded, with last_available_count = 0; a request that fails
\* adds, removes and changes no row, except that it may refresh last_accessed
\* of the rows of the session's user id.
C13_CreateOnlyAfterLookup ==
    [][/\ CreatedAfterLookup
       /\ \A s \in Sessions :
             FailedRegistration(s) =>
                /\ SameSubscriptions(store, store')
                /\ \A id \in DOMAIN store :
                      store[id].user_id # session[s] => store'[id] = store[id]]_vars

\* A lookup has failed for a user whose rows the request had refreshed, and
\* no row for the teacher was created.
C13_Witness ==
    /\ flash.kind = "lookup failed"
    /\ Matching(store, flash.teacher_id, flash.user_id) = {}
    /\ \E id \in DOMAIN store :
          /\ store[id].user_id = flash.user_id
          /\ store[id].last_accessed = 1
          /\ store[id].last_available_count = 0

\* C14: delete_teacher removes at most the row matching the submitted
\* teacher_id and the session's user_id, reset_user removes exactly the rows
\* of the session's user_id, and neither changes any row that stays.
C14_DeleteOnlyOwn ==
    [][\A s \in Sessions :
          /\ \A t \in TeacherIds :
                DeleteTeacher(s, t) =>
                    /\ DOMAIN store \ DOMAIN store' \subseteq Matching(store, t, session[s])
                    /\ Cardinality(DOMAIN store \ DOMAIN store') <= 1
                    /\ DOMAIN store' \subseteq DOMAIN store
                    /\ \A id \in DOMAIN store' : store'[id] = store[id]
          /\ ResetUser(s) =>
                /\ DOMAIN store' = DOMAIN store \ RowsOf(store, session[s])
                /\ \A id \in DOMAIN store' : store'[id] = store[id]]_vars

\* A row has been deleted while another owner watches the same teacher.
C14_Witness ==
    /\ flash.kind = "deleted"
    /\ Matching(store, flash.teacher_id, flash.user_id) = {}
    /\ \E id \in DOMAIN store :
          /\ store[id].teacher_id = flash.teacher_id
          /\ store[id].user_id # flash.user_id

\* C19: no user id owns more than 10 rows of the table, whatever
\* registration requests have run and however they interleaved.
C19_AtMostTenPerOwner ==
    \A u \in UserIds : Cardinality(RowsOf(store, u)) <= TeacherLimit

\* C20: no user id is held by two sessions that both obtained it through
\* the register action of set_user.
C20_RegisteredOnce ==
    \A s, t \in Sessions :
        (/\ s # t
         /\ via[s] = "register"
         /\ via[t] = "register"
         /\ session[s] # NoUser) => session[s] # session[t]

\* C15: the run probes the subscriptions of its snapshot in the snapshot's
\* order, each at most once, and probes no subscription that was registered
\* after the snapshot was read.
C15_ProbesFollowSnapshot ==
    \A k \in 1..Len(probed) :
        /\ probed[k].pos \in 1..Len(snap)
        /\ probed[k].teacher_id = snap[probed[k].pos].teacher_id
        /\ probed[k].user_id = snap[probed[k].pos].user_id
        /\ \A j \in 1..(k - 1) : probed[j].pos < probed[k].pos

\* C16: every run that has started eventually finishes, given that every
\* probe returns: the run is never left waiting forever.
C16_EveryRunFinishes == (pc # "idle") ~> (pc = "idle")

\* C17: a run that ended in the except clause has left consecutive_errors at
\* the value it had when the run began, whatever the probes before the error
\* returned.
C17_AbortKeepsStreak ==
    pc = "aborted" => consecutive_errors = startStreak

C17_Witness ==
    /\ pc = "aborted"
    /\ startStreak > 0
    /\ consecutive_errors = startStreak
    /\ Len(users) > 1
    /\ idx = Len(users)
    /\ \A i \in 1..(idx - 1) : Failed(i)

\* C18: a deletion never ends a run that still has subscriptions of its
\* snapshot to probe, and the run's commit never puts a row back into the
\* table.
C18_DeletionStopsNothing ==
    [][/\ ~(/\ pc' = "aborted"
            /\ abortSite' \in {"deleted", "stale"}
            /\ idx' < Len(users'))
       /\ RunCommit => DOMAIN store' = DOMAIN store]_vars

=============================================================================
